---- MODULE Spec2Model ----
(***************************************************************************)
(* Model of src/visualizer/matrix_visualizer.rs: MatrixVisualizer::new,    *)
(* MatrixVisualizer::draw and make_texture_image.                          *)
(*                                                                         *)
(* A field sample (f32) is modelled by an integer numerator e that stands  *)
(* for the value e / Denom.  Denom is a power of two, so every modelled    *)
(* sample and its product with 255.0 are exactly representable in f32 and  *)
(* the arithmetic below is the arithmetic of the code.  NaN samples are    *)
(* outside the modelled input domain.                                      *)
(***************************************************************************)
EXTENDS Integers, Sequences, FiniteSets, TLC

\* ---------------------------------------------------------------- bounds
DenomBits == 2
MaxCells == 4
MaxFrames == 2
MaxQueue == 2

\* ------------------------------------------------------ program constants
Scale == 255
TexWidth == 256
TexHeight == 256

Denom == 2 ^ DenomBits
SampleNums == (0 - 1) .. (Denom + 1)

VARIABLES pc, newResult, drawResult, displayCreated, vertexBufferCalls,
          handle, closed, u, image, textures, frameOpen, events,
          updates, uploads, presents, polls, polledKinds, pendingAtEntry,
          failedStep

vars == <<pc, newResult, drawResult, displayCreated, vertexBufferCalls,
          handle, closed, u, image, textures, frameOpen, events,
          updates, uploads, presents, polls, polledKinds, pendingAtEntry,
          failedStep>>

newVars == <<newResult, displayCreated, vertexBufferCalls, handle>>
ghostVars == <<polledKinds, pendingAtEntry>>

sawClose == "CloseRequested" \in polledKinds
countVars == <<updates, uploads, presents, polls>>

\* ------------------------------------------------------------- data model
EventKinds == {"CloseRequested", "Resized", "DeviceEvent"}
WindowEventKinds == {"CloseRequested", "Resized"}

NoField == [nrows |-> 0, ncols |-> 0, rows |-> <<>>]
NoImage == [data |-> <<>>, width |-> 0, height |-> 0]

Dims == {d \in (0 .. MaxCells) \X (0 .. MaxCells) : d[1] * d[2] <= MaxCells}

Matrix(h, w, S) == {[nrows |-> h, ncols |-> w, rows |-> r] : r \in [1 .. h -> [1 .. w -> S]]}

Fields == UNION {Matrix(d[1], d[2], SampleNums) : d \in Dims}

UniformFields == UNION {UNION {Matrix(d[1], d[2], {e}) : e \in SampleNums} : d \in Dims}

Cells(m) == m.nrows * m.ncols

\* ------------------------------------------------- make_texture_image
Trunc(num, den) == IF num >= 0 THEN num \div den ELSE 0 - ((0 - num) \div den)

AsU8Round(num, den) == LET t == Trunc(2 * num + den, 2 * den) IN IF t < 0 THEN 0 ELSE IF t > 255 THEN 255 ELSE t

AsU8(num, den) == LET t == Trunc(num, den) IN IF t < 0 THEN 0 ELSE IF t > 255 THEN 255 ELSE t

Clamp(e) == IF e < 0 THEN 0 ELSE IF e > Denom THEN Denom ELSE e

ToByte(e) == AsU8(Clamp(e) * Scale, Denom)

RECURSIVE RowBytes3(_)
RowBytes3(row) == IF row = <<>> THEN <<>> ELSE LET v == ToByte(Head(row)) IN <<v, v, v>> \o RowBytes3(Tail(row))

RECURSIVE RowBytes(_)
RowBytes(row) == IF row = <<>> THEN <<>> ELSE LET v == ToByte(Head(row)) IN <<v, v, v, v>> \o RowBytes(Tail(row))

RECURSIVE TextureData3(_)
TextureData3(rows) == IF rows = <<>> THEN <<>> ELSE RowBytes3(Head(rows)) \o TextureData3(Tail(rows))

RECURSIVE TextureData(_)
TextureData(rows) == IF rows = <<>> THEN <<>> ELSE RowBytes(Head(rows)) \o TextureData(Tail(rows))

make_texture_image_rgb(m) == [data |-> TextureData3(m.rows), width |-> TexWidth, height |-> TexHeight]

make_texture_image(m) == [data |-> TextureData(m.rows), width |-> TexWidth, height |-> TexHeight]

\* ------------------------------------------------------ MatrixVisualizer::new
glslIgnoreError(readable) == "Ok"

glsl(readable) == IF readable THEN "Ok" ELSE "ErrIo"

NewFail(step, result) ==
    /\ pc' = "new_failed"
    /\ newResult' = result
    /\ failedStep' = step

CreateDisplay ==
    /\ pc = "new"
    /\ \E ok \in BOOLEAN :
         IF ok
         THEN /\ pc' = "vertex_glsl"
              /\ displayCreated' = TRUE
              /\ UNCHANGED <<newResult, failedStep>>
         ELSE /\ NewFail("display", "panic")
              /\ UNCHANGED displayCreated
    /\ UNCHANGED <<drawResult, vertexBufferCalls, handle, closed, u, image,
                   textures, frameOpen, events, countVars, ghostVars>>

ReadGlsl(at, next) ==
    /\ pc = at
    /\ \E readable \in BOOLEAN :
         LET r == glsl(readable) IN
         /\ IF r = "Ok"
            THEN /\ pc' = next
                 /\ UNCHANGED newResult
            ELSE /\ pc' = "new_failed"
                 /\ newResult' = r
         /\ failedStep' = IF readable THEN failedStep ELSE at
    /\ UNCHANGED <<drawResult, displayCreated, vertexBufferCalls, handle,
                   closed, u, image, textures, frameOpen, events, countVars,
                   ghostVars>>

ReadVertexGlsl == ReadGlsl("vertex_glsl", "fragment_glsl")

ReadFragmentGlsl == ReadGlsl("fragment_glsl", "program")

CompileProgram ==
    /\ pc = "program"
    /\ \E ok \in BOOLEAN :
         IF ok
         THEN /\ pc' = "vertex_buffer"
              /\ UNCHANGED <<newResult, failedStep>>
         ELSE NewFail("program", "ErrProgram")
    /\ UNCHANGED <<drawResult, displayCreated, vertexBufferCalls, handle,
                   closed, u, image, textures, frameOpen, events, countVars,
                   ghostVars>>

AllocVertexBuffer ==
    /\ pc = "vertex_buffer"
    /\ vertexBufferCalls' = vertexBufferCalls + 1
    /\ \E ok \in BOOLEAN :
         IF ok
         THEN /\ pc' = "constructed"
              /\ newResult' = "Ok"
              /\ handle' = TRUE
              /\ UNCHANGED failedStep
         ELSE /\ NewFail("vertex_buffer", "panic")
              /\ UNCHANGED handle
    /\ UNCHANGED <<drawResult, displayCreated, closed, u, image, textures,
                   frameOpen, events, countVars, ghostVars>>

\* ----------------------------------------------------- MatrixVisualizer::draw
closed0True == TRUE

closed0 == FALSE

DrawEnter ==
    /\ pc = "constructed"
    /\ handle
    /\ closed' = closed0
    /\ pc' = "loop"
    /\ pendingAtEntry' = (\E i \in 1 .. Len(events) : events[i] = "CloseRequested")
    /\ UNCHANGED <<newVars, drawResult, u, image, textures, frameOpen, events,
                   countVars, polledKinds, failedStep>>

DrawReturn ==
    /\ pc = "loop"
    /\ closed
    /\ pc' = "done"
    /\ drawResult' = "Ok"
    /\ handle' = FALSE
    /\ UNCHANGED <<newResult, displayCreated, vertexBufferCalls, closed, u,
                   image, textures, frameOpen, events, countVars, ghostVars,
                   failedStep>>

Update ==
    /\ pc = "loop"
    /\ ~closed
    /\ updates < MaxFrames
    /\ \E m \in UniformFields : u' = m
    /\ updates' = updates + 1
    /\ pc' = "convert"
    /\ UNCHANGED <<newVars, drawResult, closed, image, textures, frameOpen,
                   events, uploads, presents, polls, ghostVars, failedStep>>

Convert ==
    /\ pc = "convert"
    /\ image' = make_texture_image(u)
    /\ pc' = "upload"
    /\ UNCHANGED <<newVars, drawResult, closed, u, textures, frameOpen, events,
                   countVars, ghostVars, failedStep>>

DrawFail(step, result) ==
    /\ pc' = "done"
    /\ drawResult' = result
    /\ failedStep' = step
    /\ handle' = FALSE

Upload ==
    /\ pc = "upload"
    /\ \E ok \in BOOLEAN :
         IF ok
         THEN /\ textures' = [width |-> image.width, height |-> image.height, len |-> Len(image.data)]
              /\ uploads' = uploads + 1
              /\ pc' = "begin"
              /\ UNCHANGED <<drawResult, failedStep, handle>>
         ELSE /\ DrawFail("upload", "panic")
              /\ UNCHANGED <<textures, uploads>>
    /\ UNCHANGED <<newResult, displayCreated, vertexBufferCalls, closed, u,
                   image, frameOpen, events, updates, presents, polls,
                   ghostVars>>

BeginFrame ==
    /\ pc = "begin"
    /\ frameOpen' = TRUE
    /\ pc' = "clear"
    /\ UNCHANGED <<newVars, drawResult, closed, u, image, textures, events,
                   countVars, ghostVars, failedStep>>

Clear ==
    /\ pc = "clear"
    /\ pc' = "quad"
    /\ UNCHANGED <<newVars, drawResult, closed, u, image, textures, frameOpen,
                   events, countVars, ghostVars, failedStep>>

DrawQuad ==
    /\ pc = "quad"
    /\ \E ok \in BOOLEAN :
         IF ok
         THEN /\ pc' = "finish"
              /\ UNCHANGED <<drawResult, failedStep, handle>>
         ELSE DrawFail("quad", "ErrDraw")
    /\ UNCHANGED <<newResult, displayCreated, vertexBufferCalls, closed, u,
                   image, textures, frameOpen, events, countVars, ghostVars>>

Finish ==
    /\ pc = "finish"
    /\ frameOpen' = FALSE
    /\ \E ok \in BOOLEAN :
         IF ok
         THEN /\ presents' = presents + 1
              /\ pc' = "poll"
              /\ UNCHANGED <<drawResult, failedStep, handle>>
         ELSE /\ DrawFail("finish", "ErrSwapBuffers")
              /\ UNCHANGED presents
    /\ UNCHANGED <<newResult, displayCreated, vertexBufferCalls, closed, u,
                   image, textures, events, updates, uploads, polls, ghostVars>>

PollCallbackAssign(c, event) == event = "CloseRequested"

PollCallbackAnyWindowEvent(c, event) == IF event \in WindowEventKinds THEN TRUE ELSE c

PollCallback(c, event) == IF event \in WindowEventKinds THEN (IF event = "CloseRequested" THEN TRUE ELSE c) ELSE c

RECURSIVE poll_events(_, _)
poll_events(c, evs) == IF evs = <<>> THEN c ELSE poll_events(PollCallback(c, Head(evs)), Tail(evs))

AfterPollHoisted == "convert"

AfterPoll == "loop"

Poll ==
    /\ pc = "poll"
    /\ closed' = poll_events(closed, events)
    /\ events' = <<>>
    /\ polls' = polls + 1
    /\ polledKinds' = polledKinds \cup {events[i] : i \in 1 .. Len(events)}
    /\ pc' = AfterPoll
    /\ UNCHANGED <<newVars, drawResult, u, image, textures, frameOpen, updates,
                   uploads, presents, pendingAtEntry, failedStep>>

\* --------------------------------------------------------------- environment
PostEvent ==
    /\ displayCreated
    /\ pc \notin {"new_failed", "done"}
    /\ Len(events) < MaxQueue
    /\ \E e \in EventKinds : events' = Append(events, e)
    /\ UNCHANGED <<pc, newVars, drawResult, closed, u, image, textures,
                   frameOpen, countVars, ghostVars, failedStep>>

\* ------------------------------------------------------------ specification
Init ==
    /\ pc = "new"
    /\ newResult = "none"
    /\ drawResult = "none"
    /\ displayCreated = FALSE
    /\ vertexBufferCalls = 0
    /\ handle = FALSE
    /\ closed = FALSE
    /\ u = NoField
    /\ image = NoImage
    /\ textures = [width |-> 0, height |-> 0, len |-> 0]
    /\ frameOpen = FALSE
    /\ events = <<>>
    /\ updates = 0
    /\ uploads = 0
    /\ presents = 0
    /\ polls = 0
    /\ polledKinds = {}
    /\ pendingAtEntry = FALSE
    /\ failedStep = "none"

NewStep ==
    \/ CreateDisplay
    \/ ReadVertexGlsl
    \/ ReadFragmentGlsl
    \/ CompileProgram
    \/ AllocVertexBuffer

DrawStep ==
    \/ DrawEnter
    \/ DrawReturn
    \/ Update
    \/ Convert
    \/ Upload
    \/ BeginFrame
    \/ Clear
    \/ DrawQuad
    \/ Finish
    \/ Poll

Next ==
    \/ CreateDisplay
    \/ ReadVertexGlsl
    \/ ReadFragmentGlsl
    \/ CompileProgram
    \/ AllocVertexBuffer
    \/ DrawEnter
    \/ DrawReturn
    \/ Update
    \/ Convert
    \/ Upload
    \/ BeginFrame
    \/ Clear
    \/ DrawQuad
    \/ Finish
    \/ Poll
    \/ PostEvent

Spec == Init /\ [][Next]_vars

\* draw runs synchronously on the calling thread: a step that can run, runs.
FairSpec == Spec /\ WF_vars(DrawStep)

\* -------------------------------------- specification of make_texture_image
InitConv ==
    /\ pc = "convert"
    /\ newResult = "Ok"
    /\ drawResult = "none"
    /\ displayCreated = TRUE
    /\ vertexBufferCalls = 1
    /\ handle = TRUE
    /\ closed = FALSE
    /\ u \in Fields
    /\ image = NoImage
    /\ textures = [width |-> 0, height |-> 0, len |-> 0]
    /\ frameOpen = FALSE
    /\ events = <<>>
    /\ updates = 1
    /\ uploads = 0
    /\ presents = 0
    /\ polls = 0
    /\ polledKinds = {}
    /\ pendingAtEntry = FALSE
    /\ failedStep = "none"

NextConv == Convert

SpecConv == InitConv /\ [][NextConv]_vars
\* ------------------------------------------------------------------ claims
DrawPcs == {"loop", "convert", "upload", "begin", "clear", "quad", "finish", "poll"}

InFrame == pc \in {"convert", "upload", "begin", "clear", "quad", "finish"}

ClosePending == \E i \in 1 .. Len(events) : events[i] = "CloseRequested"

\* C1: once a poll has observed a close request the loop is Closed within
\* that polling cycle: the closed flag is set, control is at the loop head or
\* past it, no update call, texture upload or present happens any more, and
\* draw returns Ok.
C1_CloseEndsLoop ==
    /\ [](sawClose => /\ closed
                      /\ pc \in {"loop", "done"}
                      /\ (pc = "done" => drawResult = "Ok"))
    /\ [][sawClose => /\ updates' = updates
                      /\ uploads' = uploads
                      /\ presents' = presents
                      /\ frameOpen' = frameOpen]_vars
    /\ (sawClose ~> (pc = "done" /\ drawResult = "Ok"))

C1_Witness == sawClose /\ pc = "done" /\ drawResult = "Ok" /\ presents = 2

\* C2: a failed loop-time step (texture upload, quad draw, frame finish)
\* ends the loop and reaches draw's caller as an error value.
C2_LoopErrorsPropagate ==
    failedStep \in {"upload", "quad", "finish"} =>
        /\ pc = "done"
        /\ drawResult \in {"ErrTexture", "ErrDraw", "ErrSwapBuffers"}

\* C3: every sample e is converted to 0 when e <= 0.0, to 255 when
\* e >= 1.0 and to e*255 truncated otherwise (0.5 gives 127); all-zeros
\* fields give all-0 buffers and all-ones fields all-255 buffers.
ExpectedByte(e) == IF e <= 0 THEN 0 ELSE IF e >= Denom THEN 255 ELSE (e * 255) \div Denom

AllCells(m, e) == \A r \in 1 .. m.nrows : \A c \in 1 .. m.ncols : m.rows[r][c] = e

C3_SampleToByte ==
    pc = "upload" =>
        /\ \A r \in 1 .. u.nrows : \A c \in 1 .. u.ncols :
             LET e == u.rows[r][c]
                 b == image.data[4 * ((r - 1) * u.ncols + (c - 1)) + 1]
             IN /\ b = ExpectedByte(e)
                /\ (2 * e = Denom => b = 127)
        /\ (AllCells(u, 0) => \A i \in 1 .. Len(image.data) : image.data[i] = 0)
        /\ (AllCells(u, Denom) => \A i \in 1 .. Len(image.data) : image.data[i] = 255)

C3_Witness ==
    /\ pc = "upload"
    /\ u.nrows = 2 /\ u.ncols = 2
    /\ 2 * u.rows[1][1] = Denom /\ u.rows[1][2] < 0
    /\ u.rows[2][1] > Denom /\ u.rows[2][2] = 1
    /\ image.data[1] = 127

\* C4: the buffer has 4*w*h bytes and the four bytes at offsets
\* 4*(r*w+c) .. 4*(r*w+c)+3 all hold the converted value of cell (r, c).
C4_BufferLayout ==
    pc = "upload" =>
        /\ Len(image.data) = 4 * u.ncols * u.nrows
        /\ \A r \in 0 .. u.nrows - 1 : \A c \in 0 .. u.ncols - 1 : \A k \in 0 .. 3 :
             image.data[4 * (r * u.ncols + c) + k + 1] = ExpectedByte(u.rows[r + 1][c + 1])

C4_Witness ==
    /\ pc = "upload"
    /\ u.nrows = 2 /\ u.ncols = 2
    /\ u.rows[1][1] = 1 /\ u.rows[1][2] = 2 /\ u.rows[2][1] = 3 /\ u.rows[2][2] = Denom
    /\ Len(image.data) = 16
    /\ image.data[5] = ExpectedByte(2) /\ image.data[9] = ExpectedByte(3)

\* C5: the image handed to the texture upload declares as many pixels as the
\* field has cells, a quarter of the byte buffer's length.
C5_TextureSizedToField ==
    pc \in {"upload", "begin", "clear", "quad", "finish", "poll"} =>
        /\ image.width * image.height = Cells(u)
        /\ 4 * image.width * image.height = Len(image.data)

\* C6: when the read of a shader source file fails, new returns the I/O
\* error, the vertex buffer allocation is never reached and no handle exists.
C6_UnreadableShader ==
    failedStep \in {"vertex_glsl", "fragment_glsl"} =>
        /\ pc = "new_failed"
        /\ newResult = "ErrIo"
        /\ vertexBufferCalls = 0
        /\ ~handle

C6_Witness == failedStep = "fragment_glsl" /\ newResult = "ErrIo" /\ displayCreated

\* C7: every construction-time failure is returned by new as an error value.
C7_NewErrorsReturned ==
    failedStep \in {"display", "vertex_glsl", "fragment_glsl", "program", "vertex_buffer"} =>
        newResult \in {"ErrDisplay", "ErrIo", "ErrProgram", "ErrBuffer"}

\* C8: the steps of an iteration run in the order update, conversion, upload,
\* clear, quad draw, present, poll, and there is exactly one update call per
\* frame: inside a frame the update calls are one ahead of the presents,
\* between frames they are equal.
FrameOrder == <<"loop", "convert", "upload", "begin", "clear", "quad", "finish", "poll">>

Succ(p) == LET i == CHOOSE j \in 1 .. Len(FrameOrder) : FrameOrder[j] = p
           IN FrameOrder[(i % Len(FrameOrder)) + 1]

C8_StepOrder ==
    /\ [](pc \in {"loop", "poll"} => updates = presents)
    /\ [](InFrame => updates = presents + 1)
    /\ [](pc = "loop" => polls = presents /\ uploads = presents)
    /\ [][(pc \in DrawPcs /\ pc' # pc /\ pc' # "done") => pc' = Succ(pc)]_vars
    /\ [][updates' # updates => (pc = "loop" /\ pc' = "convert" /\ updates' = updates + 1)]_vars

C8_Witness == pc = "poll" /\ updates = 2 /\ presents = 2 /\ polls = 1 /\ uploads = 2

\* C9: draw returns Ok only after a poll observed a close request; a poll of
\* other events leaves the loop state alone and the loop goes on.
C9_OnlyCloseStops ==
    /\ [](drawResult = "Ok" => sawClose)
    /\ [][(pc = "poll" /\ pc' # pc /\ ~ClosePending) =>
            (closed' = closed /\ pc' = "loop" /\ drawResult' = "none")]_vars
    /\ [][(pc = "loop" /\ pc' # pc /\ ~closed) =>
            (pc' = "convert" /\ drawResult' = "none")]_vars

C9_Witness ==
    /\ pc = "convert"
    /\ updates = 2
    /\ polledKinds = {"Resized", "DeviceEvent"}
    /\ ~closed

====
